---- MODULE Spec2Model ----
(***************************************************************************)
(* Model of the invoice computation and document assembly of               *)
(* src/invoice_app.py: generate_invoice_pdf and the helpers it calls.      *)
(*                                                                         *)
(* Representation.                                                         *)
(*   - A Python text is a sequence of one-character strings.               *)
(*   - An optional text (a dict entry that may be None or missing) is a    *)
(*     record [some, s].                                                   *)
(*   - A Python float is a record [kind, v]: kind "num" with v counted in  *)
(*     thousandths, or kind "inf" / "nan"; kind "none" stands for None.    *)
(*   - A Decimal quantized to 0.01 is a record [kind, v]: kind "num" with  *)
(*     v counted in paise (hundredths), or kind "nan"; "none" is None.     *)
(***************************************************************************)
EXTENDS Integers, Sequences, FiniteSets, TLC

(***************************************************************************)
(* Bounds of the model                                                     *)
(***************************************************************************)
MaxRows == 2        \* longest line_items list of Spec and SpecRows
MaxTextLen == 3     \* longest quantity / rate text of SpecField
MaxUnits == 120     \* largest subtotal of SpecTax, in paise
MaxPaise == 250     \* largest of the consecutive amounts of SpecWords, in paise
MaxGstLen == 17     \* longest registration text of SpecGst
MaxCols == 21       \* most columns of a supporting sheet of SpecSheet
MaxSheetRows == 2   \* most rows of a supporting sheet of SpecSheet
MaxEditorRows == 5  \* most rows the editor of SpecEditor grows to
MaxSNo == 3         \* largest number typed into an S.No field
MaxUses == 2        \* most uses of get_db_connection in SpecDb

(***************************************************************************)
(* Program constants                                                       *)
(***************************************************************************)
\* COMPANY["gstin"]
COMPANY_gstin == <<"3","6","A","A","B","C","C","4","7","5","4","D","1","Z","X">>
\* Decimal('0.18') and Decimal('0.09'), in percent
IgstPercent == 18
HalfGstPercent == 9
\* line 961
max_cols == 10
\* db.py line 48
max_retries == 3

(***************************************************************************)
(* Values                                                                  *)
(***************************************************************************)
NoneTxt == [some |-> FALSE, s |-> <<>>]
Txt(s) == [some |-> TRUE, s |-> s]

PyNone == [kind |-> "none", v |-> 0]
Num(v) == [kind |-> "num", v |-> v]
NaN == [kind |-> "nan", v |-> 0]
Inf(sign) == [kind |-> "inf", v |-> sign]
\* the result of an operation that raises decimal.InvalidOperation
Raise == [kind |-> "raise", v |-> 0]

Abs(x) == IF x < 0 THEN -x ELSE x
Sgn(x) == IF x < 0 THEN -1 ELSE 1

\* n/d rounded to an integer, ties away from zero (decimal.ROUND_HALF_UP)
RoundHalfUp(n, d) == Sgn(n) * ((2 * Abs(n) + d) \div (2 * d))

\* n/d rounded to an integer, ties to the even neighbour (the default
\* rounding of the decimal context, ROUND_HALF_EVEN)
RoundHalfEven(n, d) ==
    LET a == Abs(n)
        lo == a \div d
        r == a % d
    IN Sgn(n) * (IF 2 * r > d \/ (2 * r = d /\ lo % 2 = 1) THEN lo + 1 ELSE lo)

(***************************************************************************)
(* Text helpers: str.strip, str.replace(",", ""), str.isdigit, str(int),   *)
(* float(text)                                                             *)
(***************************************************************************)
Digits == {"0","1","2","3","4","5","6","7","8","9"}

DigitVal(c) ==
    CASE c = "0" -> 0 [] c = "1" -> 1 [] c = "2" -> 2 [] c = "3" -> 3
      [] c = "4" -> 4 [] c = "5" -> 5 [] c = "6" -> 6 [] c = "7" -> 7
      [] c = "8" -> 8 [] c = "9" -> 9

DigitChar(n) ==
    CASE n = 0 -> "0" [] n = 1 -> "1" [] n = 2 -> "2" [] n = 3 -> "3"
      [] n = 4 -> "4" [] n = 5 -> "5" [] n = 6 -> "6" [] n = 7 -> "7"
      [] n = 8 -> "8" [] n = 9 -> "9"

RECURSIVE LStrip(_)
LStrip(s) == IF s # <<>> /\ Head(s) = " " THEN LStrip(Tail(s)) ELSE s

RECURSIVE RStrip(_)
RStrip(s) ==
    IF s # <<>> /\ s[Len(s)] = " " THEN RStrip(SubSeq(s, 1, Len(s) - 1)) ELSE s

\* str.strip(), with the space as the only whitespace of the alphabets
strip(s) == RStrip(LStrip(s))

NotComma(c) == c # ","

\* str.replace(",", "")
replace_commas(s) == SelectSeq(s, NotComma)

\* str.isdigit() on a non-empty text; AllDigits(<<>>) is TRUE
AllDigits(s) == \A i \in 1..Len(s) : s[i] \in Digits

RECURSIVE DigitsVal(_)
DigitsVal(s) ==
    IF s = <<>> THEN 0
    ELSE 10 * DigitsVal(SubSeq(s, 1, Len(s) - 1)) + DigitVal(s[Len(s)])

\* the fractional digits fp as thousandths; no text of the pools has more
\* than three fractional digits
FracMilli(fp) ==
    CASE Len(fp) = 0 -> 0
      [] Len(fp) = 1 -> 100 * DigitsVal(fp)
      [] Len(fp) = 2 -> 10 * DigitsVal(fp)
      [] OTHER -> DigitsVal(SubSeq(fp, 1, 3))

\* str(n) for an integer n >= 0
RECURSIVE DigitsOf(_)
DigitsOf(n) ==
    IF n < 10 THEN <<DigitChar(n)>>
    ELSE DigitsOf(n \div 10) \o <<DigitChar(n % 10)>>

\* float(t): optional sign, then "inf", "nan", or digits with an optional
\* point; kind "err" is ValueError.  (Exponents, underscores and the
\* upper-case spellings need characters outside the alphabets used here.)
pyfloat(t) ==
    LET u == strip(t)
        signed == u # <<>> /\ Head(u) \in {"-", "+"}
        sgn == IF u # <<>> /\ Head(u) = "-" THEN -1 ELSE 1
        body == IF signed THEN Tail(u) ELSE u
        dots == {i \in 1..Len(body) : body[i] = "."}
        d == IF dots = {} THEN Len(body) + 1
             ELSE CHOOSE i \in dots : \A j \in dots : i <= j
        ip == SubSeq(body, 1, d - 1)
        fp == SubSeq(body, d + 1, Len(body))
    IN IF body = <<"i","n","f">> THEN Inf(sgn)
       ELSE IF body = <<"n","a","n">> THEN NaN
       ELSE IF AllDigits(ip) /\ AllDigits(fp) /\ Len(ip) + Len(fp) > 0
            THEN Num(sgn * (1000 * DigitsVal(ip) + FracMilli(fp)))
       ELSE [kind |-> "err", v |-> 0]

(***************************************************************************)
(* gst_state_code                                                          *)
(***************************************************************************)
gst_state_code(gstin) ==
    LET s == strip(gstin)
    IN IF Len(s) >= 2 /\ s[1] \in Digits /\ s[2] \in Digits
       THEN SubSeq(s, 1, 2)
       ELSE <<>>

(***************************************************************************)
(* rupees_in_words, lines 83-97.  The amount is a number of paise (the     *)
(* caller passes a Decimal of two decimals, and for such amounts the float *)
(* arithmetic of lines 88-89 is exact), a NaN, an infinity, or a value     *)
(* float() rejects.  The text returned is a sequence of pieces: literal    *)
(* texts, and the words num2words gives for a number, which are kept as    *)
(* the number.                                                             *)
(***************************************************************************)
NonNumeric == [kind |-> "text", v |-> 0]

Lit(t) == [piece |-> "text", text |-> t, n |-> 0]

\* num2words(n, lang='en_IN').replace('-', ' ').title()
NumWords(n) == [piece |-> "num2words", text |-> "", n |-> n]

Str(pieces) == [kind |-> "str", s |-> pieces]
Raises(exc) == [kind |-> "raise", exc |-> exc]

\* " and ".join(parts)
RECURSIVE JoinAnd(_)
JoinAnd(parts) ==
    IF parts = <<>> THEN <<>>
    ELSE IF Len(parts) = 1 THEN parts[1]
    ELSE parts[1] \o <<Lit(" and ")>> \o JoinAnd(Tail(parts))

\* line 88: int(amt) truncates toward zero
rupees_of(p) == Sgn(p) * (Abs(p) \div 100)

\* line 89
paise_of(p) == p - 100 * rupees_of(p)

\* rupees_in_words with a rupee clause for zero rupees too
rupees_in_words_ZeroRupees(amount) ==
    CASE amount.kind = "text" -> Str(<<>>)
      [] amount.kind = "nan" -> Raises("ValueError")
      [] amount.kind = "inf" -> Raises("OverflowError")
      [] OTHER ->
           LET rupees == rupees_of(amount.v)
               paise == paise_of(amount.v)
               parts ==
                   (IF rupees >= 0
                    THEN << <<NumWords(rupees), Lit(" Rupees")>> >> ELSE <<>>)
                   \o (IF paise > 0
                       THEN << <<NumWords(paise), Lit(" Paise")>> >> ELSE <<>>)
           IN IF parts = <<>> THEN Str(<<Lit("Zero Rupees Only")>>)
              ELSE Str(JoinAnd(parts) \o <<Lit(" Only")>>)

\* lines 83-97: float() of a non-numeric value is caught (line 86); int() of
\* a NaN raises ValueError and int() of an infinity raises OverflowError on
\* line 88, outside the try
rupees_in_words(amount) ==
    CASE amount.kind = "text" -> Str(<<>>)
      [] amount.kind = "nan" -> Raises("ValueError")
      [] amount.kind = "inf" -> Raises("OverflowError")
      [] OTHER ->
           LET rupees == rupees_of(amount.v)
               paise == paise_of(amount.v)
               parts ==
                   (IF rupees > 0
                    THEN << <<NumWords(rupees), Lit(" Rupees")>> >> ELSE <<>>)
                   \o (IF paise > 0
                       THEN << <<NumWords(paise), Lit(" Paise")>> >> ELSE <<>>)
           IN IF parts = <<>> THEN Str(<<Lit("Zero Rupees Only")>>)
              ELSE Str(JoinAnd(parts) \o <<Lit(" Only")>>)

(***************************************************************************)
(* Decimal arithmetic of generate_invoice_pdf                              *)
(***************************************************************************)
Dec(p) == Num(p)

\* q(v) = Decimal(str(v)).quantize(Decimal("0.01"), ROUND_HALF_UP) of a float
\* in thousandths; quantize of an infinity raises InvalidOperation
q(f) ==
    CASE f.kind = "num" -> Dec(RoundHalfUp(f.v, 10))
      [] f.kind = "nan" -> NaN
      [] OTHER -> Raise

\* the pairs of magnitudes, in thousandths, among the quantities and rates
\* of the pools whose product as binary floats falls just below a half-way
\* value: 3 * 0.075 is 0.22499999999999998 and 3 * 1.005 is
\* 3.0149999999999997.  For every other pair of the pools the float product
\* prints as the exact decimal product.
FloatProductBelowHalf == {<<3000, 75>>, <<3000, 1005>>}

BelowHalf(x, y) ==
    <<Abs(x), Abs(y)>> \in FloatProductBelowHalf
    \/ <<Abs(y), Abs(x)>> \in FloatProductBelowHalf

\* q(a * b) of two floats (a.v * b.v counts millionths); inf * 0 is nan; a
\* product that falls below the half-way value is rounded down
q_product(a, b) ==
    IF a.kind = "nan" \/ b.kind = "nan" THEN NaN
    ELSE IF a.kind = "inf" \/ b.kind = "inf"
         THEN IF (a.kind = "num" /\ a.v = 0) \/ (b.kind = "num" /\ b.v = 0)
              THEN NaN ELSE Raise
    ELSE IF BelowHalf(a.v, b.v)
         THEN Dec(Sgn(a.v * b.v) * (Abs(a.v * b.v) \div 10000))
    ELSE Dec(RoundHalfUp(a.v * b.v, 10000))

DecAdd(a, b) ==
    IF a.kind = "nan" \/ b.kind = "nan" THEN NaN ELSE Dec(a.v + b.v)

DecSub(a, b) ==
    IF a.kind = "nan" \/ b.kind = "nan" THEN NaN ELSE Dec(a.v - b.v)

(***************************************************************************)
(* Row preparation, lines 583-612                                          *)
(***************************************************************************)
\* lines 591-602: the float of a qty / rate entry; None when the entry is
\* None, blank, or float() raises
field_val(raw) ==
    IF ~raw.some THEN PyNone
    ELSE IF strip(raw.s) = <<>> THEN PyNone
    ELSE LET f == pyfloat(strip(replace_commas(raw.s)))
         IN IF f.kind = "err" THEN PyNone ELSE f

\* taxable_num with a blank quantity counted as one unit
taxable_num_DefaultQty(qty_val, rate_val) ==
    IF qty_val.kind # "none" /\ rate_val.kind # "none"
    THEN q_product(qty_val, rate_val)
    ELSE IF rate_val.kind = "num" THEN q(rate_val)
    ELSE Dec(0)

\* line 603
taxable_num(qty_val, rate_val) ==
    IF qty_val.kind # "none" /\ rate_val.kind # "none"
    THEN q_product(qty_val, rate_val)
    ELSE Dec(0)

\* line 610
rate_cell(rate_val) == IF rate_val.kind # "none" THEN q(rate_val) ELSE PyNone

\* lines 604-612: the dict appended to prepared for row r at position idx
PreparedRow(r, idx) ==
    LET qty_val == field_val(r.qty)
        rate_val == field_val(r.rate)
    IN [slno |-> IF r.slno # 0 THEN r.slno ELSE idx,
        particulars |-> strip(r.particulars),
        qty |-> qty_val,
        rate |-> rate_cell(rate_val),
        taxable_amount |-> taxable_num(qty_val, rate_val)]

RowRaises(p) == p.rate.kind = "raise" \/ p.taxable_amount.kind = "raise"

(***************************************************************************)
(* Totals, lines 883-912                                                   *)
(***************************************************************************)
RECURSIVE SumTaxable(_)
\* line 884: sum([r['taxable_amount'] for r in prepared])
SumTaxable(rows) ==
    IF rows = <<>> THEN Dec(0)
    ELSE DecAdd(SumTaxable(SubSeq(rows, 1, Len(rows) - 1)),
                rows[Len(rows)].taxable_amount)

\* line 885: quantize without a rounding argument rounds half-even
AdvanceOf(meta) == Dec(RoundHalfEven(meta.advance_received, 10))

\* line 888
ClientState(client) ==
    IF client.gstin.some /\ client.gstin.s # <<>>
    THEN gst_state_code(client.gstin.s)
    ELSE <<>>

\* line 891, as a truth value
AutoIgst(comp, cli) == comp # <<>> /\ cli # <<>> /\ comp # cli

\* ResolveUseIgst as "force_igst or auto_igst": an unchecked box no longer
\* forces SPLIT
ResolveUseIgst_OrAuto(force, auto) == force = "True" \/ auto

\* lines 890-899; force is invoice_meta.get('use_igst', False)
ResolveUseIgst(force, auto) ==
    IF force = "True" THEN TRUE
    ELSE IF force \in {"False", "missing"} THEN FALSE
    ELSE auto

\* TaxOf with the rounding argument left out (half-even)
TaxOf_HalfEven(sub, percent) ==
    IF sub.kind = "nan" THEN NaN ELSE Dec(RoundHalfEven(sub.v * percent, 100))

\* (subtotal * Decimal(rate)).quantize(Decimal("0.01"), ROUND_HALF_UP)
TaxOf(sub, percent) ==
    IF sub.kind = "nan" THEN NaN ELSE Dec(RoundHalfUp(sub.v * percent, 100))

\* lines 902-908
IgstOf(sub, useIgst) == IF useIgst THEN TaxOf(sub, IgstPercent) ELSE Dec(0)
SgstOf(sub, useIgst) == IF useIgst THEN Dec(0) ELSE TaxOf(sub, HalfGstPercent)
\* CgstOf charging the full rate
CgstOf_FullRate(sub, useIgst) == IF useIgst THEN Dec(0) ELSE TaxOf(sub, IgstPercent)
CgstOf(sub, useIgst) == IF useIgst THEN Dec(0) ELSE TaxOf(sub, HalfGstPercent)

\* TotalOf without the integrated tax
TotalOf_NoIgst(sub, s, c, i) == DecAdd(DecAdd(sub, s), c)

\* line 911
TotalOf(sub, s, c, i) == DecAdd(DecAdd(DecAdd(sub, s), c), i)

\* NetOf with a floor of zero
NetOf_Clamped(tot, advance) ==
    LET d == DecSub(tot, advance)
    IN IF d.kind = "num" /\ d.v < 0 THEN Dec(0) ELSE d

\* line 912
NetOf(tot, advance) == DecSub(tot, advance)

(***************************************************************************)
(* State                                                                   *)
(***************************************************************************)
VARIABLES
    invoice_meta,   \* argument of generate_invoice_pdf
    line_items,     \* argument of generate_invoice_pdf
    pc,             \* position in generate_invoice_pdf
    error,          \* "" or the name of the exception that ended the call
    prepared,       \* list built by lines 583-612
    table_data,     \* data rows of the item table (the header row is left out)
    subtotal, adv, comp_state, cli_state, use_igst,
    sgst, cgst, igst, total, net,
    totals_rows,    \* rows of the totals block, in order: label and value
    party,          \* lines of the "To" block of the parties table
    words,          \* result of rupees_in_words(net) for the words line
    supporting_df,  \* argument of generate_invoice_pdf
    appendix,       \* column groups of the supporting-sheet tables, in order
    story,          \* the sections appended to the story, in order
    arg, result,    \* argument and result of a call of a helper function
    now,            \* the clock datetime.now() reads, in seconds of the day
    path,           \* the path generate_invoice_pdf returns
    earlier,        \* what an earlier call with the same arguments produced
    session_rows,   \* st.session_state.rows of main: the 'slno' of each row
    db,             \* db.py: _pool, and the position and locals of a use of
                    \* get_db_connection
    record          \* the row main inserts into the invoices table

vars == <<invoice_meta, line_items, pc, error, prepared, table_data,
          subtotal, adv, comp_state, cli_state, use_igst,
          sgst, cgst, igst, total, net, totals_rows,
          party, words, supporting_df, appendix, story, arg, result,
          now, path, earlier, session_rows, db, record>>

\* what lies outside one call: the clock, the earlier call and the rows of
\* the editor (st.session_state.rows, by their 'slno')
outsideVars == <<now, earlier, session_rows, db, record>>

storyVars == <<party, words, appendix, story>>
callVars == <<arg, result>>

tableVars == <<table_data>>
totalVars == <<subtotal, adv, comp_state, cli_state, use_igst,
               sgst, cgst, igst, total, net>>

(***************************************************************************)
(* Inputs                                                                  *)
(***************************************************************************)
G27 == <<"2","7","A","A","A","C","X","1","2","3","4","K","1","Z","5">>
GBad == <<"A","B","2","7","A","C","X","1","2","3","4","K","1","Z","5">>

\* invoice_meta.get('client', {}) or {}: no client record ('client' missing,
\* None or an empty dict)
NoClient ==
    [present |-> FALSE, gstin |-> NoneTxt, name |-> <<>>, address |-> <<>>]

\* a client record with a name, an address and the 'gstin' entry g
Client(g) ==
    [present |-> TRUE, gstin |-> g, name |-> <<"X">>, address |-> <<"Y">>]

ClientPool ==
    {NoClient, Client(NoneTxt), Client(Txt(<<>>)), Client(Txt(<<" ">>)),
     Client(Txt(G27)), Client(Txt(COMPANY_gstin)), Client(Txt(GBad))}

\* the 'use_igst' entry of invoice_meta: missing, None, True or False
UseIgstPool == {"missing", "None", "True", "False"}

\* advance_received, a float counted in thousandths
AdvancePool == {0, 125}

TextPool == {<<>>, <<"J">>}

Meta(c, u, a, t, p) ==
    [client |-> c, use_igst |-> u, advance_received |-> a,
     training_dates |-> <<>>, training_exam_dates |-> t, training |-> <<>>,
     process_name |-> p]

Row(sl, part, qty, rate) ==
    [slno |-> sl, particulars |-> part, qty |-> qty, rate |-> rate]

\* line items of Spec: slno 0 stands for a missing, None or zero 'slno'
RowPool ==
    {Row(1, <<"A">>, Txt(<<"2">>), Txt(<<"1",".","5">>)),
     Row(2, <<"B">>, Txt(<<>>), Txt(<<>>)),
     Row(0, <<"C">>, Txt(<<"0">>), Txt(<<"5">>)),
     Row(7, <<" ","D">>, NoneTxt, Txt(<<"0",".","5">>)),
     Row(3, <<"E">>, Txt(<<"1">>), Txt(<<".","0","3">>)),
     Row(2, <<"F">>, Txt(<<"-","1">>), Txt(<<"2">>)),
     Row(4, <<"G">>, Txt(<<"n","a","n">>), Txt(<<"1">>)),
     Row(5, <<"H">>, Txt(<<"1">>), Txt(<<"i","n","f">>))}

\* quantity and rate texts of SpecRows
QtyPool ==
    {NoneTxt, Txt(<<>>), Txt(<<"0">>), Txt(<<"2">>), Txt(<<"1",".","5">>),
     Txt(<<"-","1">>), Txt(<<"x">>), Txt(<<"i","n","f">>)}
RatePool ==
    {Txt(<<>>), Txt(<<"0">>), Txt(<<".","1","2","5">>), Txt(<<"1",",","0","5">>),
     Txt(<<"n","a","n">>)}

\* all lists of at most n elements of S
ListsUpTo(S, n) == UNION {[1..k -> S] : k \in 0..n}

\* characters of the texts of SpecField
Alphabet == {"0", "1", "-", ".", ",", " ", "x"}

\* no value yet
Unset == [kind |-> "unset"]

\* supporting_df = None
NoFrame ==
    [given |-> FALSE, rows |-> 0, columns |-> <<>>, markup |-> 0,
     echoed |-> FALSE]

\* nothing computed yet
Fresh ==
    /\ party = [name |-> <<>>, address |-> <<>>, gstin |-> <<>>]
    /\ words = Unset
    /\ appendix = <<>>
    /\ story = <<>>
    /\ result = Unset
    /\ error = ""
    /\ prepared = <<>>
    /\ table_data = <<>>
    /\ subtotal = Dec(0) /\ adv = Dec(0)
    /\ comp_state = <<>> /\ cli_state = <<>>
    /\ use_igst = FALSE
    /\ sgst = Dec(0) /\ cgst = Dec(0) /\ igst = Dec(0)
    /\ total = Dec(0) /\ net = Dec(0)
    /\ totals_rows = <<>>
    /\ path = Unset

\* nothing has happened outside the call
\* lines 1303-1310: the five rows the editor starts with
DefaultRows == <<1, 2, 3, 4, 5>>

\* db.py as imported: _pool is None (line 14) and no use is under way.
\* taken lists the connections leased from a pool during the use, each
\* "open" (leased, connected), "dead" (leased, not connected) or "closed"
\* (given back to its pool); conn indexes taken, 0 for None.
IdleDb ==
    [pc |-> "idle", pool |-> "None", attempt |-> 0, taken |-> <<>>, conn |-> 0,
     exc |-> "", uses |-> 0]

Outside ==
    /\ now = 0 /\ earlier = Unset /\ session_rows = DefaultRows /\ db = IdleDb
    /\ record = Unset

\* the start of a call of generate_invoice_pdf without a supporting sheet
Blank ==
    pc = "prepare" /\ Fresh /\ Outside /\ supporting_df = NoFrame /\ arg = Unset

\* a call of generate_invoice_pdf with any client, override, advance and
\* metadata, and up to MaxRows line items
Init ==
    /\ \E c \in ClientPool, u \in UseIgstPool, a \in AdvancePool,
          t \in TextPool, p \in TextPool :
          invoice_meta = Meta(c, u, a, t, p)
    /\ line_items \in ListsUpTo(RowPool, MaxRows)
    /\ Blank

\* a call with every pair of quantity and rate texts in each row
InitRows ==
    /\ invoice_meta = Meta(Client(Txt(G27)), "None", 0, <<>>, <<>>)
    /\ line_items \in
         ListsUpTo({Row(0, <<"A">>, qt, rt) : qt \in QtyPool, rt \in RatePool},
                   MaxRows)
    /\ Blank

\* a call with one row, one of whose fields is any text of at most
\* MaxTextLen characters
InitField ==
    /\ invoice_meta = Meta(Client(Txt(G27)), "None", 0, <<>>, <<>>)
    /\ \E t \in ListsUpTo(Alphabet, MaxTextLen),
          o \in {Txt(<<>>), Txt(<<"2">>)}, swap \in BOOLEAN :
          line_items = <<IF swap THEN Row(1, <<"A">>, o, Txt(t))
                                  ELSE Row(1, <<"A">>, Txt(t), o)>>
    /\ Blank

\* advances of SpecDoc, in thousandths: none, one that rounds to 0.00, 0.13,
\* 1.00, and 2000.00, more than any total of DocRowPool
DocAdvancePool == {0, 1, 130, 1000, 2000000}

\* metadata texts of SpecDoc; a missing entry and an empty text read alike
DocTextPool == {<<>>, <<"J">>, <<" ">>}

DocRowPool ==
    {Row(1, <<"A">>, Txt(<<"2">>), Txt(<<"1",".","5">>)),
     Row(2, <<"B">>, Txt(<<>>), Txt(<<>>)),
     Row(3, <<"C">>, Txt(<<"-","1">>), Txt(<<".","0","3">>))}

\* a call with any advance, any of the metadata texts present or not, either
\* value of the override, and up to MaxRows line items
InitDoc ==
    /\ \E u \in {"True", "False"}, a \in DocAdvancePool,
          t1 \in TextPool, t2 \in TextPool, t3 \in TextPool, p \in DocTextPool :
          invoice_meta =
              [Meta(Client(Txt(G27)), u, a, t2, p)
                  EXCEPT !.training_dates = t1, !.training = t3]
    /\ line_items \in ListsUpTo(DocRowPool, MaxRows)
    /\ Blank

\* a call whose single row is worth n paise, or minus n paise, for every n
\* up to MaxUnits
InitTax ==
    /\ \E c \in ClientPool, u \in UseIgstPool :
          invoice_meta = Meta(c, u, 0, <<>>, <<>>)
    /\ \E n \in 0..MaxUnits, r \in {<<".","0","1">>, <<"-",".","0","1">>} :
          line_items = <<Row(1, <<"A">>, Txt(DigitsOf(n)), Txt(r))>>
    /\ Blank

\* amounts of SpecWords: every number of paise up to MaxPaise, some larger
\* ones, the negatives down to -MaxPaise, a NaN, the infinities and a value
\* float() rejects
WordsArgPool ==
    {Num(p) : p \in (-MaxPaise)..MaxPaise}
    \cup {Num(181720), Num(100000), Num(99999999)}
    \cup {NaN, Inf(1), Inf(-1), NonNumeric}

\* a call rupees_in_words(arg)
InitWords ==
    /\ pc = "call"
    /\ arg \in WordsArgPool
    /\ invoice_meta = Meta(NoClient, "None", 0, <<>>, <<>>)
    /\ line_items = <<>>
    /\ supporting_df = NoFrame
    /\ Fresh /\ Outside

\* lines 83-97
Call_rupees_in_words ==
    /\ pc = "call"
    /\ LET r == rupees_in_words(arg)
       IN /\ result' = r
          /\ IF r.kind = "raise"
             THEN pc' = "raised" /\ error' = r.exc
             ELSE pc' = "returned" /\ UNCHANGED error
    /\ UNCHANGED <<invoice_meta, line_items, prepared, tableVars, totalVars,
                   totals_rows, storyVars, supporting_df, arg, path,
                   outsideVars>>

NextWords == Call_rupees_in_words

SpecWords == InitWords /\ [][NextWords]_vars

\* str(x) of a text or None
pystr(x) == IF x.some THEN x.s ELSE <<"N","o","n","e">>

\* the first n characters of b, continued with the digit 9 past its end
Extended(b, n) == [i \in 1..n |-> IF i <= Len(b) THEN b[i] ELSE "9"]

\* registration texts of SpecGst: None, and every text of 0..MaxGstLen
\* characters that starts as one of four identifiers (two well-formed, one
\* starting with letters, one starting with a digit and a letter), bare or
\* with a space before and after
GstArgPool ==
    {NoneTxt}
    \cup {Txt(Extended(b, n)) :
             b \in {G27, COMPANY_gstin, GBad, Tail(G27)}, n \in 0..MaxGstLen}
    \cup {Txt(<<" ">> \o Extended(b, n) \o <<" ">>) :
             b \in {G27, COMPANY_gstin, GBad, Tail(G27)}, n \in 0..MaxGstLen}

\* a call gst_state_code(arg)
InitGst ==
    /\ pc = "call"
    /\ arg \in GstArgPool
    /\ invoice_meta = Meta(NoClient, "None", 0, <<>>, <<>>)
    /\ line_items = <<>>
    /\ supporting_df = NoFrame
    /\ Fresh /\ Outside

\* lines 99-106
Call_gst_state_code ==
    /\ pc = "call"
    /\ result' = Txt(gst_state_code(pystr(arg)))
    /\ pc' = "returned"
    /\ UNCHANGED <<invoice_meta, line_items, error, prepared, tableVars,
                   totalVars, totals_rows, storyVars, supporting_df, arg, path,
                   outsideVars>>

NextGst == Call_gst_state_code

SpecGst == InitGst /\ [][NextGst]_vars

\* a frame of r rows whose columns are labelled 1..c, every cell plain text
Frame(r, c) ==
    [given |-> TRUE, rows |-> r, columns |-> [i \in 1..c |-> i],
     markup |-> 0, echoed |-> FALSE]

\* the frame with, in column k, a cell whose text holds a tag that is never
\* closed, which Paragraph() rejects with a ValueError; the message of the
\* error quotes the first 30 characters of the text, and e tells whether the
\* tag lies among them
MarkedFrame(r, c, k, e) == [Frame(r, c) EXCEPT !.markup = k, !.echoed = e]

\* a call with no supporting sheet, or one of 0..MaxSheetRows rows and
\* 0..MaxCols columns
InitSheet ==
    /\ pc = "prepare"
    /\ \E a \in {0, 1000} :
          invoice_meta = Meta(Client(Txt(G27)), "None", a, <<>>, <<>>)
    /\ line_items \in ListsUpTo(DocRowPool, 1)
    /\ supporting_df \in
         {NoFrame} \cup {Frame(r, c) : r \in 0..MaxSheetRows, c \in 0..MaxCols}
    /\ arg = Unset
    /\ Fresh /\ Outside

\* a call with a supporting sheet of which one cell, or none, holds markup
\* that Paragraph() rejects
InitMarkup ==
    /\ pc = "prepare"
    /\ invoice_meta = Meta(Client(Txt(G27)), "None", 0, <<>>, <<>>)
    /\ line_items \in ListsUpTo(DocRowPool, 1)
    /\ \E r \in 1..MaxSheetRows, c \in 1..MaxCols :
          \E k \in 0..c, e \in BOOLEAN :
             supporting_df = MarkedFrame(r, c, k, e)
    /\ arg = Unset
    /\ Fresh /\ Outside

(***************************************************************************)
(* generate_invoice_pdf, one action per block of the function              *)
(***************************************************************************)
\* lines 583-612: price every row; q() of an infinite float raises
PrepareRows ==
    /\ pc = "prepare"
    /\ LET rows == [i \in 1..Len(line_items) |-> PreparedRow(line_items[i], i)]
       IN IF \E i \in 1..Len(rows) : RowRaises(rows[i])
          THEN /\ pc' = "raised"
               /\ error' = "InvalidOperation"
               /\ UNCHANGED prepared
          ELSE /\ pc' = "parties"
               /\ prepared' = rows
               /\ UNCHANGED error
    /\ UNCHANGED <<invoice_meta, line_items, tableVars, totalVars, totals_rows,
                   storyVars, supporting_df, callVars, path,
                   outsideVars>>

LowerCase == <<"a","b","c","d","e","f","g","h","i","j","k","l","m",
               "n","o","p","q","r","s","t","u","v","w","x","y","z">>
UpperCase == <<"A","B","C","D","E","F","G","H","I","J","K","L","M",
               "N","O","P","Q","R","S","T","U","V","W","X","Y","Z">>

\* str.upper()
upper(s) ==
    [i \in 1..Len(s) |->
        IF \E k \in 1..Len(LowerCase) : LowerCase[k] = s[i]
        THEN UpperCase[CHOOSE k \in 1..Len(LowerCase) : LowerCase[k] = s[i]]
        ELSE s[i]]

\* lines 702, 740, 744, 748: what follows "To M/s: ", the address line and
\* what follows "GSTIN NO: "; with no client record every .get() falls back
\* to ''
PartyLines(client) ==
    IF client.present
    THEN [name |-> client.name, address |-> client.address,
          gstin |-> upper(client.gstin.s)]
    ELSE [name |-> <<>>, address |-> <<>>, gstin |-> <<>>]

\* lines 701-753: the parties block; line 748 calls .upper() on the client's
\* 'gstin' entry, which raises AttributeError when the entry is None
PartiesBlock ==
    /\ pc = "parties"
    /\ IF invoice_meta.client.present /\ ~invoice_meta.client.gstin.some
       THEN /\ pc' = "raised" /\ error' = "AttributeError"
            /\ UNCHANGED <<party, story>>
       ELSE /\ pc' = "items"
            /\ party' = PartyLines(invoice_meta.client)
            /\ story' = Append(story, "parties")
            /\ UNCHANGED error
    /\ UNCHANGED <<invoice_meta, line_items, prepared, tableVars, totalVars,
                   totals_rows, words, appendix, supporting_df, callVars, path,
                   outsideVars>>

\* the three digits of n < 1000
ThreeDigits(n) ==
    <<DigitChar(n \div 100), DigitChar((n \div 10) % 10), DigitChar(n % 10)>>

\* the "," option of the format: digits of n >= 0 in groups of three
RECURSIVE Grouped(_)
Grouped(n) ==
    IF n < 1000 THEN DigitsOf(n)
    ELSE Grouped(n \div 1000) \o <<",">> \o ThreeDigits(n % 1000)

\* f"{d:,.2f}" of a Decimal of p paise
MoneyText(p) ==
    (IF p < 0 THEN <<"-">> ELSE <<>>)
    \o Grouped(Abs(p) \div 100) \o <<".">>
    \o <<DigitChar((Abs(p) \div 10) % 10), DigitChar(Abs(p) % 10)>>

\* f"{d:,.2f}" of a Decimal; a NaN formats as the text NaN
format_money(d) == IF d.kind = "nan" THEN <<"N","a","N">> ELSE MoneyText(d.v)

RECURSIVE TrimZeros(_)
TrimZeros(s) ==
    IF s # <<>> /\ s[Len(s)] = "0" THEN TrimZeros(SubSeq(s, 1, Len(s) - 1)) ELSE s

\* str(int(f)) of a float of v thousandths that is a whole number
IntText(v) == (IF v < 0 THEN <<"-">> ELSE <<>>) \o DigitsOf(Abs(v) \div 1000)

\* str(f) of a float of v thousandths that is not a whole number
FloatText(v) ==
    (IF v < 0 THEN <<"-">> ELSE <<>>)
    \o DigitsOf(Abs(v) \div 1000) \o <<".">> \o TrimZeros(ThreeDigits(Abs(v) % 1000))

\* line 792
qty_display(qty) ==
    CASE qty.kind = "none" -> <<>>
      [] qty.kind = "nan" -> <<"n","a","n">>
      [] qty.kind = "inf" ->
           (IF qty.v < 0 THEN <<"-">> ELSE <<>>) \o <<"i","n","f">>
      [] OTHER -> IF qty.v = 0 THEN <<>>
                  ELSE IF qty.v % 1000 = 0 THEN IntText(qty.v)
                  ELSE FloatText(qty.v)

\* rate_display printing a zero rate
rate_display_ZeroShown(rate) ==
    IF rate.kind = "none" THEN <<>> ELSE format_money(rate)

\* line 793
rate_display(rate) ==
    IF rate.kind = "none" \/ (rate.kind = "num" /\ rate.v = 0) THEN <<>>
    ELSE format_money(rate)

\* line 794
tax_display(r) ==
    IF r.qty.kind = "none" \/ r.rate.kind = "none" \/ r.taxable_amount = Dec(0)
    THEN <<>>
    ELSE format_money(r.taxable_amount)

\* lines 787-804: the cells of one item row (the description and SAC
\* columns are copied from the input and are left out)
ItemCell(r) ==
    [kind |-> "item", sl |-> DigitsOf(r.slno), part |-> r.particulars,
     qty |-> qty_display(r.qty), rate |-> rate_display(r.rate),
     tax |-> tax_display(r)]

HasQtyOrRate(r) == r.qty.kind # "none" \/ r.rate.kind # "none"

\* ItemRows leaving out the rows whose quantity and rate are both blank
ItemRows_SkipBlank(prep) ==
    LET kept == SelectSeq(prep, HasQtyOrRate)
    IN [i \in 1..Len(kept) |-> ItemCell(kept[i])]

\* lines 786-805: one table row per prepared row, in list order
ItemRows(prep) == [i \in 1..Len(prep) |-> ItemCell(prep[i])]

\* lines 807-809
WithPlaceholder(rows) ==
    IF rows = <<>>
    THEN <<[kind |-> "placeholder", sl |-> <<"-">>, part |-> <<"-">>,
            qty |-> <<"-">>, rate |-> <<"-">>, tax |-> <<"-">>]>>
    ELSE rows

\* line 813
TrainVal(meta) ==
    IF meta.training_dates # <<>> THEN meta.training_dates
    ELSE IF meta.training_exam_dates # <<>> THEN meta.training_exam_dates
    ELSE meta.training

\* lines 816-822, 830-836, 844-850: the label in the PARTICULARS column, the
\* value in the DESCRIPTION column, the other cells empty
LabelRow(k, label, value) ==
    [kind |-> k, sl |-> <<>>, part |-> <<label>>, desc |-> value,
     qty |-> <<>>, rate |-> <<>>, tax |-> <<>>]

\* line 846: f"{float(adv_received):,.2f}" of a float of v thousandths.  The
\* format rounds the binary value of the float, which is what is computed
\* here when v is not a tie (v % 10 # 5) or is a tie the float holds
\* exactly (v % 125 = 0); the advances of the pools are of these two kinds.
float_money(v) == MoneyText(RoundHalfEven(v, 10))

\* AppendedRows with the advance row above the metadata rows
AppendedRows_AdvanceFirst(meta) ==
    (IF meta.advance_received > 0
     THEN <<LabelRow("advance", "Advance Received:",
                     float_money(meta.advance_received))>> ELSE <<>>)
    \o (IF TrainVal(meta) # <<>>
        THEN <<LabelRow("training", "Training Dates/Exam Dates:", TrainVal(meta))>>
        ELSE <<>>)
    \o (IF meta.process_name # <<>>
        THEN <<LabelRow("process", "Process Name:", meta.process_name)>>
        ELSE <<>>)

\* lines 811-851: the conditional rows appended to the item table
AppendedRows(meta) ==
    (IF TrainVal(meta) # <<>>
     THEN <<LabelRow("training", "Training Dates/Exam Dates:", TrainVal(meta))>>
     ELSE <<>>)
    \o (IF meta.process_name # <<>>
        THEN <<LabelRow("process", "Process Name:", meta.process_name)>>
        ELSE <<>>)
    \o (IF meta.advance_received > 0
        THEN <<LabelRow("advance", "Advance Received:",
                        float_money(meta.advance_received))>> ELSE <<>>)

\* lines 786-851
ItemsTable ==
    /\ pc = "items"
    /\ table_data' = WithPlaceholder(ItemRows(prepared)) \o AppendedRows(invoice_meta)
    /\ story' = Append(story, "items")
    /\ pc' = "totals"
    /\ UNCHANGED <<invoice_meta, line_items, error, prepared, totalVars,
                   totals_rows, party, words, appendix, supporting_df, callVars, path,
                   outsideVars>>

\* lines 883-912
TotalsCalc ==
    /\ pc = "totals"
    /\ LET sub == SumTaxable(prepared)
           comp == gst_state_code(COMPANY_gstin)
           cli == ClientState(invoice_meta.client)
           useIgst == ResolveUseIgst(invoice_meta.use_igst, AutoIgst(comp, cli))
           s == SgstOf(sub, useIgst)
           c == CgstOf(sub, useIgst)
           i == IgstOf(sub, useIgst)
           tot == TotalOf(sub, s, c, i)
       IN /\ subtotal' = sub
          /\ adv' = AdvanceOf(invoice_meta)
          /\ comp_state' = comp
          /\ cli_state' = cli
          /\ use_igst' = useIgst
          /\ sgst' = s /\ cgst' = c /\ igst' = i
          /\ total' = tot
          /\ net' = NetOf(tot, AdvanceOf(invoice_meta))
    /\ pc' = "totals_block"
    /\ UNCHANGED <<invoice_meta, line_items, error, prepared, tableVars,
                   totals_rows, storyVars, supporting_df, callVars, path,
                   outsideVars>>

\* the "Rs. " in front of every value of the totals block
Rs(t) == <<"R","s","."," ">> \o t

TotalsRow(label, value) == [label |-> label, value |-> value]

\* lines 917, 919, 921: a tax component that is not > 0 prints as 0.00
tax_component_display(d) ==
    IF d.v > 0 THEN Rs(format_money(d)) ELSE Rs(<<"0",".","0","0">>)

\* TotalsRows listing only the tax rows of the regime in force
TotalsRows_ApplicableOnly(sub, s, c, i, tot, a, n, useIgst) ==
    <<TotalsRow("Sub Total", Rs(format_money(sub)))>>
    \o (IF useIgst
        THEN <<TotalsRow("IGST (18%)", tax_component_display(i))>>
        ELSE <<TotalsRow("CGST (9%)", tax_component_display(c)),
               TotalsRow("SGST (9%)", tax_component_display(s))>>)
    \o <<TotalsRow("TOTAL", Rs(format_money(tot)))>>
    \o (IF a.v > 0
        THEN <<TotalsRow("Less Advance Received", Rs(format_money(a)))>>
        ELSE <<>>)
    \o <<TotalsRow("Payable To Crux", Rs(format_money(n)))>>

\* lines 914-929: the rows of the totals block; useIgst is not consulted,
\* all three tax rows are listed under either regime
TotalsRows(sub, s, c, i, tot, a, n, useIgst) ==
    <<TotalsRow("Sub Total", Rs(format_money(sub))),
      TotalsRow("SGST (9%)", tax_component_display(s)),
      TotalsRow("CGST (9%)", tax_component_display(c)),
      TotalsRow("IGST (18%)", tax_component_display(i)),
      TotalsRow("TOTAL", Rs(format_money(tot)))>>
    \o (IF a.v > 0
        THEN <<TotalsRow("Less Advance Received", Rs(format_money(a)))>>
        ELSE <<>>)
    \o <<TotalsRow("Payable To Crux", Rs(format_money(n)))>>

\* lines 914-929: the comparisons sgst > 0, cgst > 0, igst > 0 raise
\* InvalidOperation on a NaN
TotalsBlock ==
    /\ pc = "totals_block"
    /\ IF sgst.kind = "nan" \/ cgst.kind = "nan" \/ igst.kind = "nan"
       THEN /\ pc' = "raised"
            /\ error' = "InvalidOperation"
            /\ UNCHANGED <<totals_rows, story>>
       ELSE /\ pc' = "words"
            /\ story' = Append(story, "totals")
            /\ totals_rows' =
                 TotalsRows(subtotal, sgst, cgst, igst, total, adv, net, use_igst)
            /\ UNCHANGED error
    /\ UNCHANGED <<invoice_meta, line_items, prepared, tableVars, totalVars,
                   party, words, appendix, supporting_df, callVars, path,
                   outsideVars>>

\* line 945: the words line; an exception of rupees_in_words ends the call
WordsLine ==
    /\ pc = "words"
    /\ LET w == rupees_in_words(net)
       IN /\ words' = w
          /\ IF w.kind = "raise"
             THEN pc' = "raised" /\ error' = w.exc /\ UNCHANGED story
             ELSE /\ pc' = "appendix"
                  /\ story' = Append(story, "words")
                  /\ UNCHANGED error
    /\ UNCHANGED <<invoice_meta, line_items, prepared, tableVars, totalVars,
                   totals_rows, party, appendix, supporting_df, callVars, path,
                   outsideVars>>

\* DataFrame.empty: no rows or no columns
IsEmptyFrame(df) == df.rows = 0 \/ df.columns = <<>>

\* Slice taking one column more, the first of the next slice
Slice_Wide(cols, start) ==
    SubSeq(cols, start + 1,
           IF start + max_cols + 1 < Len(cols) THEN start + max_cols + 1
           ELSE Len(cols))

\* cols[start:start+max_cols]
Slice(cols, start) ==
    SubSeq(cols, start + 1,
           IF start + max_cols < Len(cols) THEN start + max_cols ELSE Len(cols))

\* lines 962-963: for start in range(0, len(cols), max_cols), the columns
\* of each table
RECURSIVE ColumnGroups(_, _)
ColumnGroups(cols, start) ==
    IF start >= Len(cols) THEN <<>>
    ELSE <<Slice(cols, start)>> \o ColumnGroups(cols, start + max_cols)

\* the group of columns, counted from 1, whose table holds column k
GroupOf(k) == (k - 1) \div max_cols + 1

\* lines 953-996: the supporting sheet, a page break, a title and one table
\* per group of columns; the stamp of lines 985-993 is appended when the
\* signature file exists on the machine.  The column labels are distinct,
\* as pd.read_csv and pd.read_excel leave them.  A cell that Paragraph()
\* rejects (line 972) ends the try block at its group: the tables of the
\* groups before it are in the story already, and line 996 appends a
\* paragraph with the message of the error, which is rejected in turn when
\* the message quotes the tag.
Appendix ==
    /\ pc = "appendix"
    /\ IF supporting_df.given /\ ~IsEmptyFrame(supporting_df)
       THEN LET groups == ColumnGroups(supporting_df.columns, 0)
                bad == GroupOf(supporting_df.markup)
            IN IF supporting_df.markup = 0
               THEN \E signature_exists \in BOOLEAN :
                      /\ appendix' = groups
                      /\ story' = story \o <<"PageBreak", "sheet_title">>
                                    \o [g \in 1..Len(groups) |-> "sheet_table"]
                                    \o (IF signature_exists THEN <<"stamp">> ELSE <<>>)
                      /\ pc' = "build"
                      /\ UNCHANGED error
               ELSE /\ appendix' = SubSeq(groups, 1, bad - 1)
                    /\ IF supporting_df.echoed
                       THEN /\ story' = story \o <<"PageBreak", "sheet_title">>
                                     \o [g \in 1..(bad - 1) |-> "sheet_table"]
                            /\ pc' = "raised"
                            /\ error' = "ValueError"
                       ELSE /\ story' = story \o <<"PageBreak", "sheet_title">>
                                     \o [g \in 1..(bad - 1) |-> "sheet_table"]
                                     \o <<"sheet_error">>
                            /\ pc' = "build"
                            /\ UNCHANGED error
       ELSE /\ pc' = "build"
            /\ UNCHANGED <<appendix, story, error>>
    /\ UNCHANGED <<invoice_meta, line_items, prepared, tableVars,
                   totalVars, totals_rows, party, words, supporting_df, callVars, path,
                   outsideVars>>

TwoDigits(n) == <<DigitChar(n \div 10), DigitChar(n % 10)>>

\* datetime.now().strftime('%Y%m%d%H%M%S') at t seconds of the day of the
\* call
strftime(t) ==
    <<"2","0","2","5","0","1","0","1">>
    \o TwoDigits(t \div 3600) \o TwoDigits((t \div 60) % 60) \o TwoDigits(t % 60)

\* invoice_meta.get('invoice_no', 'NA'); the metadata of the model carry no
\* invoice number
invoice_no_of(meta) == <<"N","A">>

\* lines 614-615: os.path.join(PDF_DIR, f"Invoice_{no}_{stamp}.pdf"), kept
\* as its three variable parts
PathOf(meta, t) ==
    [dir |-> "generated_pdfs", invoice_no |-> invoice_no_of(meta),
     stamp |-> strftime(t)]

\* lines 614-615 and 998-999: the file is named after the clock, the story
\* is built into it and the path is returned.  The clock does not advance
\* during a call.
BuildDocument ==
    /\ pc = "build"
    /\ path' = PathOf(invoice_meta, now)
    /\ pc' = "done"
    /\ UNCHANGED <<invoice_meta, line_items, error, prepared, tableVars,
                   totalVars, totals_rows, storyVars, supporting_df, callVars,
                   outsideVars>>

\* what a finished call has produced and returned
Outcome ==
    [path |-> path, story |-> story, party |-> party,
     table_data |-> table_data, totals_rows |-> totals_rows,
     words |-> words, appendix |-> appendix]

\* generate_invoice_pdf is called again with the same arguments, in the
\* same second or the next one
CallAgain ==
    /\ pc = "done"
    /\ earlier = Unset
    /\ earlier' = Outcome
    /\ now' \in {now, now + 1}
    /\ UNCHANGED <<session_rows, db, record>>
    /\ pc' = "prepare"
    /\ party' = [name |-> <<>>, address |-> <<>>, gstin |-> <<>>]
    /\ words' = Unset
    /\ appendix' = <<>>
    /\ story' = <<>>
    /\ result' = Unset
    /\ error' = ""
    /\ prepared' = <<>>
    /\ table_data' = <<>>
    /\ subtotal' = Dec(0) /\ adv' = Dec(0)
    /\ comp_state' = <<>> /\ cli_state' = <<>>
    /\ use_igst' = FALSE
    /\ sgst' = Dec(0) /\ cgst' = Dec(0) /\ igst' = Dec(0)
    /\ total' = Dec(0) /\ net' = Dec(0)
    /\ totals_rows' = <<>>
    /\ path' = Unset
    /\ UNCHANGED <<invoice_meta, line_items, supporting_df, arg>>

Next ==
    \/ PrepareRows
    \/ PartiesBlock
    \/ ItemsTable
    \/ TotalsCalc
    \/ TotalsBlock
    \/ WordsLine
    \/ Appendix
    \/ BuildDocument

Spec == Init /\ [][Next]_vars
SpecRows == InitRows /\ [][Next]_vars
SpecField == InitField /\ [][Next]_vars
SpecTax == InitTax /\ [][Next]_vars
SpecDoc == InitDoc /\ [][Next]_vars
SpecSheet == InitSheet /\ [][Next]_vars
SpecMarkup == InitMarkup /\ [][Next]_vars

\* quantities, rates and advances of SpecRound: products and advances that
\* fall half-way between two paise, and some that do not
RoundQtyPool == {<<"1">>, <<"2">>, <<"3">>}
RoundRatePool ==
    {<<"1","0","1",".","0","0","5">>, <<".","0","7","5">>, <<".","1","2","5">>,
     <<"1",".","0","0","5">>, <<".","0","3">>}
RoundAdvancePool == {0, 125, 130, 375, 1000}

\* a call with one or two rows priced at the half-way values and an advance
InitRound ==
    /\ \E u \in {"True", "False"}, a \in RoundAdvancePool :
          invoice_meta = Meta(Client(Txt(G27)), u, a, <<>>, <<>>)
    /\ \E qt \in RoundQtyPool, rt \in RoundRatePool, two \in BOOLEAN :
          line_items =
              <<Row(1, <<"A">>, Txt(qt), Txt(rt))>>
              \o (IF two THEN <<Row(2, <<"B">>, Txt(<<"1">>), Txt(<<".","0","3">>))>>
                  ELSE <<>>)
    /\ Blank

SpecRound == InitRound /\ [][Next]_vars

\* seconds of the day at which the first of two calls is made
ClockPool == {0, 59, 3599, 86398}

\* two calls of generate_invoice_pdf with the same arguments
InitTwice ==
    /\ pc = "prepare"
    /\ \E a \in {0, 1000}, u \in {"True", "False"} :
          invoice_meta = Meta(Client(Txt(G27)), u, a, <<"J">>, <<>>)
    /\ line_items \in ListsUpTo(DocRowPool, MaxRows)
    /\ supporting_df \in {NoFrame, Frame(1, 11)}
    /\ arg = Unset
    /\ now \in ClockPool
    /\ earlier = Unset
    /\ session_rows = DefaultRows
    /\ db = IdleDb
    /\ record = Unset
    /\ Fresh

NextTwice == Next \/ CallAgain

SpecTwice == InitTwice /\ [][NextTwice]_vars

(***************************************************************************)
(* main, the row editor of the Create Invoice page: one action per button  *)
(* or field, each a run of the script.  A row is kept by its 'slno'; the    *)
(* texts typed into its other fields play no part in the numbering.        *)
(***************************************************************************)
\* the page as first shown, a client selected
InitEditor ==
    /\ pc = "edit"
    /\ invoice_meta = Meta(Client(Txt(G27)), "False", 0, <<>>, <<>>)
    /\ line_items = <<>>
    /\ supporting_df = NoFrame
    /\ arg = Unset
    /\ Fresh /\ Outside

\* what an editor action leaves alone
editorFrame ==
    <<invoice_meta, line_items, pc, error, prepared, tableVars, totalVars,
      totals_rows, storyVars, supporting_df, callVars, now, path, earlier,
      db, record>>

\* lines 1364-1365: for i, rr in enumerate(rows, start=1): rr['slno'] = i
Renumbered(seq) == [i \in 1..Len(seq) |-> i]

RemoveAt(seq, i) == SubSeq(seq, 1, i - 1) \o SubSeq(seq, i + 1, Len(seq))
InsertAfter(seq, i, x) ==
    SubSeq(seq, 1, i) \o <<x>> \o SubSeq(seq, i + 1, Len(seq))
Swapped(seq, i, j) == [seq EXCEPT ![i] = seq[j], ![j] = seq[i]]

\* lines 1312-1314: "Add New Blank Row"
AddNewBlankRow ==
    /\ pc = "edit" /\ Len(session_rows) < MaxEditorRows
    /\ session_rows' = Append(session_rows, Len(session_rows) + 1)
    /\ UNCHANGED editorFrame

\* lines 1385-1387: "Add New Row (Bottom)"
AddNewRowBottom ==
    /\ pc = "edit" /\ Len(session_rows) < MaxEditorRows
    /\ session_rows' = session_rows \o <<Len(session_rows) + 1>>
    /\ UNCHANGED editorFrame

\* lines 1327 and 1348-1350: a number typed into the S.No field of row idx
\* (min_value=1) is stored in the row
EditSNo ==
    /\ pc = "edit"
    /\ \E idx \in 1..Len(session_rows), new_sl \in 1..MaxSNo :
          session_rows' = [session_rows EXCEPT ![idx] = new_sl]
    /\ UNCHANGED editorFrame

\* lines 1360-1366: "Remove"
Remove ==
    /\ pc = "edit"
    /\ \E idx \in 1..Len(session_rows) : session_rows' = Renumbered(RemoveAt(session_rows, idx))
    /\ UNCHANGED editorFrame

\* lines 1367-1373: "Duplicate"
Duplicate ==
    /\ pc = "edit" /\ Len(session_rows) < MaxEditorRows
    /\ \E idx \in 1..Len(session_rows) :
          session_rows' = Renumbered(InsertAfter(session_rows, idx, session_rows[idx]))
    /\ UNCHANGED editorFrame

\* lines 1374-1379: "Move Up", without effect on the first row
MoveUp ==
    /\ pc = "edit"
    /\ \E idx \in 2..Len(session_rows) : session_rows' = Renumbered(Swapped(session_rows, idx - 1, idx))
    /\ UNCHANGED editorFrame

\* lines 1380-1385: "Move Down", without effect on the last row
MoveDown ==
    /\ pc = "edit"
    /\ \E idx \in 1..(Len(session_rows) - 1) :
          session_rows' = Renumbered(Swapped(session_rows, idx + 1, idx))
    /\ UNCHANGED editorFrame

\* lines 1434-1450: "Generate PDF Invoice" hands st.session_state.rows to
\* generate_invoice_pdf
GeneratePdfInvoice ==
    /\ pc = "edit"
    /\ invoice_meta.client.present
    /\ line_items' = [i \in 1..Len(session_rows) |-> Row(session_rows[i], <<>>, Txt(<<>>), Txt(<<>>))]
    /\ pc' = "prepare"
    /\ UNCHANGED <<invoice_meta, error, prepared, tableVars, totalVars,
                   totals_rows, storyVars, supporting_df, callVars, path,
                   outsideVars>>

NextEditor ==
    \/ AddNewBlankRow \/ AddNewRowBottom \/ EditSNo \/ Remove \/ Duplicate
    \/ MoveUp \/ MoveDown \/ GeneratePdfInvoice

SpecEditor == InitEditor /\ [][NextEditor]_vars

(***************************************************************************)
(* main, "Generate PDF Invoice": the PDF is generated, then the record is   *)
(* inserted.  The floats of the record are kept in units of 10^-8 rupee,    *)
(* which holds every product and tax of the pools exactly.                 *)
(***************************************************************************)
\* the button pressed with a client of another state or of the company's,
\* the box checked or not, an advance, and up to MaxRows rows
InitMain ==
    /\ \E c \in {Client(Txt(G27)), Client(Txt(COMPANY_gstin))},
          force_igst \in {"True", "False"}, a \in {0, 1000} :
          invoice_meta = Meta(c, force_igst, a, <<>>, <<>>)
    /\ line_items \in ListsUpTo(DocRowPool, MaxRows)
    /\ Blank

\* lines 1404-1414: subtotal_calc, the sum of qv * rv over the rows with
\* both numbers, in millionths of a rupee
RECURSIVE subtotal_calc(_)
subtotal_calc(seq) ==
    IF seq = <<>> THEN 0
    ELSE LET r == seq[Len(seq)]
             qv == field_val(r.qty)
             rv == field_val(r.rate)
         IN subtotal_calc(SubSeq(seq, 1, Len(seq) - 1))
            + (IF qv.kind = "num" /\ rv.kind = "num" THEN qv.v * rv.v
               ELSE 0)

\* lines 1449-1465: the values main computes for the record
RecordOf(meta, items) ==
    LET millionths == subtotal_calc(items)
        subtotal_dec == 100 * millionths
        comp == gst_state_code(COMPANY_gstin)
        cli == ClientState(meta.client)
        auto_igst == AutoIgst(comp, cli)
        use_igst_final == meta.use_igst = "True" \/ auto_igst
        igst_val == IF use_igst_final THEN millionths * IgstPercent ELSE 0
        half == IF use_igst_final THEN 0 ELSE millionths * HalfGstPercent
    IN [use_igst |-> use_igst_final, subtotal |-> subtotal_dec,
        sgst |-> half, cgst |-> half, igst |-> igst_val,
        total |-> subtotal_dec + half + half + igst_val
                    - 100000 * meta.advance_received]

\* lines 1447-1469: after generate_invoice_pdf has returned, INSERT INTO
\* invoices and commit
InsertInvoice ==
    /\ pc = "done"
    /\ record = Unset
    /\ record' = RecordOf(invoice_meta, line_items)
    /\ pc' = "saved"
    /\ UNCHANGED <<invoice_meta, line_items, error, prepared, tableVars,
                   totalVars, totals_rows, storyVars, supporting_df, callVars,
                   path, now, earlier, session_rows, db>>

NextMain == Next \/ InsertInvoice

SpecMain == InitMain /\ [][NextMain]_vars

(***************************************************************************)
(* db.py: get_pool, get_connection and get_db_connection.  What the MySQL   *)
(* connector answers (a connection, connected or not, or an Error) is       *)
(* chosen freely at each call.                                              *)
(***************************************************************************)
\* nothing of generate_invoice_pdf or the editor is under way
InitDb ==
    /\ pc = "idle"
    /\ invoice_meta = Meta(NoClient, "None", 0, <<>>, <<>>)
    /\ line_items = <<>>
    /\ supporting_df = NoFrame
    /\ arg = Unset
    /\ Fresh /\ Outside

\* what an action of db.py leaves alone
dbFrame ==
    <<invoice_meta, line_items, pc, error, prepared, tableVars, totalVars,
      totals_rows, storyVars, supporting_df, callVars, now, path, earlier,
      session_rows, record>>

\* lines 88-90: get_db_connection is entered and calls get_connection
EnterWith ==
    /\ db.pc \in {"idle", "left"} /\ db.uses < MaxUses
    /\ db' = [db EXCEPT !.pc = "get_pool", !.attempt = 0, !.taken = <<>>,
                         !.conn = 0, !.exc = "", !.uses = @ + 1]
    /\ UNCHANGED dbFrame

\* ends the attempt as lines 62-66 do, and returns None without resetting
\* the pool
OnError_KeepPool(d) ==
    IF d.attempt < max_retries - 1
    THEN [d EXCEPT !.pc = "get_pool", !.attempt = @ + 1, !.conn = 0]
    ELSE [d EXCEPT !.pc = "returned", !.conn = 0]

\* lines 61-69, except Error: before the last attempt sleep, reset _pool and
\* try again; at the last attempt return None
OnError(d) ==
    IF d.attempt < max_retries - 1
    THEN [d EXCEPT !.pc = "get_pool", !.attempt = @ + 1, !.pool = "None",
                   !.conn = 0]
    ELSE [d EXCEPT !.pc = "returned", !.conn = 0]

\* lines 16-41 and 53: get_pool() returns the pool, building it when _pool
\* is None; a missing secret raises KeyError, which line 70 turns into
\* None; the connector may raise Error
GetPool ==
    /\ db.pc = "get_pool"
    /\ IF db.pool = "Pool"
       THEN db' = [db EXCEPT !.pc = "lease"]
       ELSE \E outcome \in {"ok", "KeyError", "Error"} :
               db' = CASE outcome = "ok" ->
                            [db EXCEPT !.pc = "lease", !.pool = "Pool"]
                       [] outcome = "KeyError" ->
                            [db EXCEPT !.pc = "returned", !.conn = 0]
                       [] OTHER -> OnError(db)
    /\ UNCHANGED dbFrame

\* lines 54-60: pool.get_connection() and conn.is_connected()
LeaseConnection ==
    /\ db.pc = "lease"
    /\ \E outcome \in {"connected", "disconnected", "Error"} :
          db' = CASE outcome = "connected" ->
                       [db EXCEPT !.taken = Append(@, "open"),
                                  !.conn = Len(db.taken) + 1,
                                  !.pc = "returned"]
                  [] outcome = "disconnected" ->
                       [db EXCEPT !.taken = Append(@, "dead"),
                                  !.conn = Len(db.taken) + 1,
                                  !.pc = "reconnect"]
                  [] OTHER -> OnError(db)
    /\ UNCHANGED dbFrame

\* line 58: conn.reconnect(attempts=3, delay=1) connects or raises Error
Reconnect ==
    /\ db.pc = "reconnect"
    /\ \E ok \in BOOLEAN :
          db' = IF ok
                THEN [db EXCEPT !.taken[db.conn] = "open", !.pc = "returned"]
                ELSE OnError(db)
    /\ UNCHANGED dbFrame

\* lines 90-93: None raises Exception, a connection is yielded
Yield ==
    /\ db.pc = "returned"
    /\ db' = IF db.conn = 0
             THEN [db EXCEPT !.pc = "handler", !.exc = "Exception"]
             ELSE [db EXCEPT !.pc = "body"]
    /\ UNCHANGED dbFrame

\* the body of the with-block: it ends normally or raises, and the
\* connection may be lost meanwhile
Body ==
    /\ db.pc = "body"
    /\ \E lost \in BOOLEAN, outcome \in {"", "Error", "Exception"} :
          db' = [db EXCEPT !.taken[db.conn] = IF lost THEN "dead" ELSE @,
                           !.exc = outcome,
                           !.pc = IF outcome = "" THEN "finally" ELSE "handler"]
    /\ UNCHANGED dbFrame

\* lines 94-103: roll back when still connected, report and raise again
Handler ==
    /\ db.pc = "handler"
    /\ db' = [db EXCEPT !.pc = "finally"]
    /\ UNCHANGED dbFrame

\* lines 104-106: if conn and conn.is_connected(): conn.close()
Finally ==
    /\ db.pc = "finally"
    /\ db' = IF db.conn # 0 /\ db.taken[db.conn] = "open"
             THEN [db EXCEPT !.taken[db.conn] = "closed", !.pc = "left"]
             ELSE [db EXCEPT !.pc = "left"]
    /\ UNCHANGED dbFrame

GetConnectionStep == GetPool \/ LeaseConnection \/ Reconnect

NextDb == EnterWith \/ GetConnectionStep \/ Yield \/ Body \/ Handler \/ Finally

\* a call of the connector returns or raises: get_connection goes on
SpecDb == InitDb /\ [][NextDb]_vars /\ WF_vars(GetConnectionStep)

\* the blocks of generate_invoice_pdf that have run
Priced ==
    pc \in {"parties", "items", "totals", "totals_block", "words", "appendix",
            "build", "done"}
TableBuilt ==
    pc \in {"totals", "totals_block", "words", "appendix", "build", "done"}
Taxed == pc \in {"totals_block", "words", "appendix", "build", "done"}

(***************************************************************************)
(* Properties                                                              *)
(***************************************************************************)
\* x is n/d rounded to an integer with ties away from zero, stated by the
\* distance between x and n/d (d > 0)
IsHalfUpOf(x, n, d) ==
    IF n >= 0
    THEN 2 * d * x - d <= 2 * n /\ 2 * n < 2 * d * x + d
    ELSE 2 * d * x - d < 2 * n /\ 2 * n <= 2 * d * x + d

OverrideUnset == invoice_meta.use_igst \in {"missing", "None"}

\* C1: with no manual override (no 'use_igst' entry, or None) the regime is
\* INTEGRATED if and only if the issuer's and the client's jurisdiction codes
\* are both non-empty and different; otherwise it is SPLIT.
C1_AutoRegimeWhenUnset ==
    (Taxed /\ OverrideUnset) =>
        (use_igst <=> (comp_state # <<>> /\ cli_state # <<>>
                       /\ comp_state # cli_state))

\* C2: a set manual override always wins: use_igst = True gives INTEGRATED
\* and use_igst = False gives SPLIT, whatever the two jurisdiction codes are.
C2_OverrideWins ==
    Taxed => /\ (invoice_meta.use_igst = "True" => use_igst)
             /\ (invoice_meta.use_igst = "False" => ~use_igst)

\* C2 witness: the override forces SPLIT although the codes are 36 and 27
C2_Witness ==
    /\ pc = "done"
    /\ invoice_meta.use_igst = "False"
    /\ comp_state = <<"3","6">> /\ cli_state = <<"2","7">>
    /\ ~use_igst
    /\ sgst.v > 0

\* C3: under SPLIT central-tax = state-tax = subtotal x 9% rounded half-up to
\* 2 decimals and integrated-tax = 0; under INTEGRATED integrated-tax =
\* subtotal x 18% rounded half-up to 2 decimals and central-tax = state-tax = 0.
C3_TaxComponents ==
    (Taxed /\ subtotal.kind = "num") =>
        IF use_igst
        THEN /\ igst.kind = "num" /\ IsHalfUpOf(igst.v, 18 * subtotal.v, 100)
             /\ sgst = Dec(0) /\ cgst = Dec(0)
        ELSE /\ sgst.kind = "num" /\ IsHalfUpOf(sgst.v, 9 * subtotal.v, 100)
             /\ cgst = sgst
             /\ igst = Dec(0)

\* C3 witness: a subtotal of 0.50 under SPLIT, whose 9% is the tie 0.045
C3_Witness ==
    /\ pc = "done" /\ ~use_igst
    /\ subtotal = Dec(50) /\ sgst = Dec(5) /\ cgst = Dec(5)

\* C4: total = subtotal + central-tax + state-tax + integrated-tax, and a
\* breakdown never carries a non-zero integrated-tax together with a non-zero
\* central- or state-tax.
C4_Breakdown ==
    (Taxed /\ subtotal.kind = "num") =>
        /\ total.kind = "num"
        /\ total.v = subtotal.v + cgst.v + sgst.v + igst.v
        /\ (igst.v = 0 \/ (cgst.v = 0 /\ sgst.v = 0))

\* C4 witness: an INTEGRATED breakdown with a non-zero tax
C4_Witness ==
    /\ pc = "done" /\ use_igst
    /\ igst.v > 0 /\ total.v = subtotal.v + igst.v

\* the tax charged and the tax the other regime charges on the same subtotal
TaxCharged == sgst.v + cgst.v + igst.v
TaxOfOtherRegime ==
    SgstOf(subtotal, ~use_igst).v + CgstOf(subtotal, ~use_igst).v
    + IgstOf(subtotal, ~use_igst).v

\* C5 as claimed: for every subtotal, central-tax + state-tax equals the
\* single integrated tax, so the grand total does not depend on the regime.
C5_RegimeIndependentTotal ==
    (Taxed /\ subtotal.kind = "num") => TaxCharged = TaxOfOtherRegime

\* C5 as amended: central-tax + state-tax differs from the integrated tax by
\* at most 0.01, and the two are equal when the subtotal is a whole number of
\* rupees.
C5_RegimeTotalsWithinOnePaisa ==
    (Taxed /\ subtotal.kind = "num") =>
        /\ Abs(TaxCharged - TaxOfOtherRegime) <= 1
        /\ (subtotal.v % 100 = 0 => TaxCharged = TaxOfOtherRegime)

\* C5 witness: a subtotal of 0.06 under SPLIT: 0.01 + 0.01 against 0.01
C5_Witness ==
    /\ pc = "done" /\ ~use_igst
    /\ subtotal = Dec(6) /\ TaxCharged = 2 /\ TaxOfOtherRegime = 1

\* C6: if the client's jurisdiction is unknown (registration number absent,
\* or one from which gst_state_code extracts the empty code) and the override
\* is unset, the call does not raise on account of it and the regime is SPLIT.
C6_UnknownJurisdictionIsSplit ==
    (OverrideUnset /\ ClientState(invoice_meta.client) = <<>>) =>
        /\ error # "AttributeError"
        /\ (Taxed => ~use_igst)

RowsOf(seq) == 1..Len(seq)
QtyPresent(i) == prepared[i].qty.kind # "none"
RatePresent(i) == prepared[i].rate.kind # "none"

\* C7: the taxable amount of a priced row is present exactly when both
\* quantity and rate are present; otherwise the stored taxable amount is
\* absent, not a zero.
C7_TaxableAbsentNotZero ==
    Priced => \A i \in RowsOf(prepared) :
        (prepared[i].taxable_amount.kind # "none")
            <=> (QtyPresent(i) /\ RatePresent(i))

\* the text parses, as lines 595 and 600 parse it, to a number >= 0
ParsesNonNegative(raw) ==
    /\ raw.some
    /\ strip(raw.s) # <<>>
    /\ LET f == pyfloat(strip(replace_commas(raw.s)))
       IN f.kind = "num" /\ f.v >= 0

\* C8: a quantity or rate field is present if and only if its source text is
\* non-empty and parses to a non-negative number; every other text yields an
\* absent field and none makes pricing fail.
C8_FieldPresence ==
    /\ pc # "raised"
    /\ Priced => \A i \in RowsOf(prepared) :
          /\ QtyPresent(i) <=> ParsesNonNegative(line_items[i].qty)
          /\ RatePresent(i) <=> ParsesNonNegative(line_items[i].rate)

PresentRows == {i \in RowsOf(prepared) : QtyPresent(i) /\ RatePresent(i)}

RECURSIVE SumPaise(_)
SumPaise(S) ==
    IF S = {} THEN 0
    ELSE LET i == CHOOSE j \in S : TRUE
         IN prepared[i].taxable_amount.v + SumPaise(S \ {i})

\* row i is worth quantity x rate rounded half-up to 2 decimals
IsRoundedProduct(i) ==
    LET qv == field_val(line_items[i].qty)
        rv == field_val(line_items[i].rate)
    IN (qv.kind = "num" /\ rv.kind = "num") =>
          /\ prepared[i].taxable_amount.kind = "num"
          /\ IsHalfUpOf(prepared[i].taxable_amount.v, qv.v * rv.v, 10000)

\* row i is worth quantity x rate at 2 decimals, at most half a paisa away
\* from the exact product
IsNearestProduct(i) ==
    LET qv == field_val(line_items[i].qty)
        rv == field_val(line_items[i].rate)
    IN (qv.kind = "num" /\ rv.kind = "num") =>
          /\ prepared[i].taxable_amount.kind = "num"
          /\ Abs(10000 * prepared[i].taxable_amount.v - qv.v * rv.v) <= 5000

\* C9: the subtotal is the sum of the taxable amounts of exactly the rows
\* whose quantity and rate are both present, each quantity x rate rounded to
\* 2 decimals; an invoice with no rows has subtotal 0.00.
C9_SubtotalOfPresentRows ==
    Taxed =>
        /\ \A i \in PresentRows : IsNearestProduct(i)
        /\ IF \E i \in PresentRows : prepared[i].taxable_amount.kind = "nan"
           THEN subtotal.kind = "nan"
           ELSE subtotal = Dec(SumPaise(PresentRows))
        /\ (line_items = <<>> => subtotal = Dec(0))

\* C9 witness: one row with a rate and no quantity beside a row worth
\* 2 x 0.125 = 0.25
C9_Witness ==
    /\ pc = "done"
    /\ Len(prepared) = 2
    /\ ~QtyPresent(1) /\ prepared[1].rate = Dec(13)
    /\ prepared[2].qty = Num(2000) /\ prepared[2].rate = Dec(13)
    /\ subtotal = Dec(25)

IsDataRow(r) == r.kind \in {"item", "placeholder"}
DataRows == SelectSeq(table_data, IsDataRow)

\* data row i of the table is input row i, with the number the caller gave it
CarriesInputRow(i) ==
    /\ DataRows[i].kind = "item"
    /\ DataRows[i].part = strip(line_items[i].particulars)
    /\ (line_items[i].slno # 0 => DigitsVal(DataRows[i].sl) = line_items[i].slno)

\* C10 as claimed: for an input list of N rows the item table has exactly N
\* data rows, in input order, each carrying the caller's sequence number.
C10_ExactlyTheInputRows ==
    TableBuilt =>
        /\ Len(DataRows) = Len(line_items)
        /\ \A i \in RowsOf(line_items) : CarriesInputRow(i)

\* C10 as amended: for N >= 1 input rows the table has exactly those N data
\* rows, in input order, with the caller's sequence numbers; for an empty
\* list it has one placeholder row of dashes.
C10_InputRowsOrPlaceholder ==
    TableBuilt =>
        IF line_items = <<>>
        THEN Len(DataRows) = 1 /\ DataRows[1].kind = "placeholder"
        ELSE /\ Len(DataRows) = Len(line_items)
             /\ \A i \in RowsOf(line_items) : CarriesInputRow(i)

\* C10 witness: a row with blank quantity and rate, numbered 2 by the caller,
\* stands first in the table before a priced row numbered 1
C10_Witness ==
    /\ pc = "done"
    /\ Len(line_items) = 2
    /\ line_items[1].slno = 2 /\ line_items[2].slno = 1
    /\ ~QtyPresent(1) /\ ~RatePresent(1) /\ QtyPresent(2)
    /\ Len(DataRows) = 2
    /\ DataRows[1].sl = <<"2">> /\ DataRows[2].sl = <<"1">>

ItemRowsOfTable == SelectSeq(table_data, LAMBDA r : r.kind = "item")

\* C11: the data rows of the printed item table appear in ascending
\* sequence-number order, whatever order the list is in and whatever
\* sequence numbers its rows carry.
C11_AscendingSequenceNumbers ==
    TableBuilt =>
        \A i, j \in RowsOf(ItemRowsOfTable) :
            i < j => DigitsVal(ItemRowsOfTable[i].sl) <= DigitsVal(ItemRowsOfTable[j].sl)

NoneOrZero(f) == f.kind = "none" \/ (f.kind = "num" /\ f.v = 0)

\* the text t reads as the number zero ("0", "0.00", "-0.0", ...)
ShowsZero(t) ==
    LET f == pyfloat(replace_commas(t)) IN f.kind = "num" /\ f.v = 0

\* C12: in every item row the quantity, rate and taxable cells are empty
\* text when the underlying value is absent or numerically zero, the taxable
\* cell is empty when quantity or rate is absent or non-numeric, and no cell
\* shows a zero.
C12_ZeroAndAbsentCellsAreBlank ==
    TableBuilt =>
        \A i \in RowsOf(line_items) :
            LET cell == table_data[i]
                qv == field_val(line_items[i].qty)
                rv == field_val(line_items[i].rate)
            IN /\ cell.kind = "item"
               /\ NoneOrZero(qv) => cell.qty = <<>>
               /\ NoneOrZero(rv) => cell.rate = <<>>
               /\ (qv.kind = "none" \/ rv.kind = "none"
                     \/ prepared[i].taxable_amount = Dec(0)) => cell.tax = <<>>
               /\ \A t \in {cell.qty, cell.rate, cell.tax} : ~ShowsZero(t)

\* C12 witness: a row with quantity 0 and rate 0 printed with three empty
\* cells above a row of 2 units at 105.00
C12_Witness ==
    /\ pc = "done"
    /\ Len(line_items) = 2
    /\ field_val(line_items[1].qty) = Num(0)
    /\ field_val(line_items[1].rate) = Num(0)
    /\ table_data[1].qty = <<>> /\ table_data[1].rate = <<>>
    /\ table_data[1].tax = <<>>
    /\ table_data[2].qty = <<"2">>
    /\ table_data[2].rate = <<"1","0","5",".","0","0">>
    /\ table_data[2].tax = <<"2","1","0",".","0","0">>

\* the kinds of the rows of the table, in order
KindsOfTable == [i \in 1..Len(table_data) |-> table_data[i].kind]

\* positions of the rows of kind k
RowsOfKind(k) == {i \in 1..Len(table_data) : table_data[i].kind = k}

\* the text the training row is drawn from: the first non-empty of the
\* three entries
TrainingSource ==
    IF invoice_meta.training_dates # <<>> THEN invoice_meta.training_dates
    ELSE IF invoice_meta.training_exam_dates # <<>>
         THEN invoice_meta.training_exam_dates
    ELSE invoice_meta.training

\* C13: the training row is present iff a training text is non-empty, the
\* process row iff the process name is non-empty, the advance row iff the
\* advance is > 0; each at most once, after every data row, in the order
\* training, process, advance, with the value in the description column.
C13_ConditionalRows ==
    TableBuilt =>
        /\ (RowsOfKind("training") # {}) <=> (TrainingSource # <<>>)
        /\ (RowsOfKind("process") # {}) <=> (invoice_meta.process_name # <<>>)
        /\ (RowsOfKind("advance") # {}) <=> (invoice_meta.advance_received > 0)
        /\ \A k \in {"training", "process", "advance"} :
               Cardinality(RowsOfKind(k)) <= 1
        /\ \A i \in RowsOfKind("item") \cup RowsOfKind("placeholder"),
              j \in RowsOfKind("training") \cup RowsOfKind("process")
                      \cup RowsOfKind("advance") : i < j
        /\ \A i \in RowsOfKind("training"),
              j \in RowsOfKind("process") \cup RowsOfKind("advance") : i < j
        /\ \A i \in RowsOfKind("process"), j \in RowsOfKind("advance") : i < j
        /\ \A i \in RowsOfKind("training") : table_data[i].desc = TrainingSource
        /\ \A i \in RowsOfKind("process") :
               table_data[i].desc = invoice_meta.process_name

\* C13 witness: two item rows followed by the training, process and advance
\* rows, the training text coming from the third entry
C13_Witness ==
    /\ pc = "done"
    /\ invoice_meta.training_dates = <<>>
    /\ invoice_meta.training_exam_dates = <<>>
    /\ invoice_meta.training = <<"J">>
    /\ invoice_meta.advance_received = 130
    /\ KindsOfTable = <<"item", "item", "training", "process", "advance">>
    /\ table_data[5].desc = <<"0",".","1","3">>

TotalsPrinted == pc \in {"words", "appendix", "build", "done"}

TotalsLabels == [i \in 1..Len(totals_rows) |-> totals_rows[i].label]

TaxLabels == {"SGST (9%)", "CGST (9%)", "IGST (18%)"}

\* the labels of the totals block other than the tax rows, in order
NonTaxLabels == SelectSeq(TotalsLabels, LAMBDA l : l \notin TaxLabels)

\* position of the row labelled l (0 when there is none)
TotalsPos(l) ==
    IF \E i \in 1..Len(totals_rows) : totals_rows[i].label = l
    THEN CHOOSE i \in 1..Len(totals_rows) : totals_rows[i].label = l
    ELSE 0

ZeroValue == Rs(<<"0",".","0","0">>)

\* C14 as claimed: subtotal; under SPLIT exactly the central-tax and
\* state-tax rows and no integrated-tax row, under INTEGRATED exactly one
\* integrated-tax row; grand total; a less-advance row iff the advance is
\* > 0; amount payable.
C14_OnlyApplicableTaxRows ==
    TotalsPrinted =>
        /\ NonTaxLabels =
             <<"Sub Total", "TOTAL">>
             \o (IF invoice_meta.advance_received > 0
                 THEN <<"Less Advance Received">> ELSE <<>>)
             \o <<"Payable To Crux">>
        /\ {l \in TaxLabels : TotalsPos(l) # 0} =
             (IF use_igst THEN {"IGST (18%)"} ELSE {"SGST (9%)", "CGST (9%)"})
        /\ \A l \in TaxLabels :
               TotalsPos(l) # 0 =>
                   TotalsPos("Sub Total") < TotalsPos(l)
                   /\ TotalsPos(l) < TotalsPos("TOTAL")

\* C14 as amended: subtotal; the state-tax, central-tax and integrated-tax
\* rows, all three under either regime, the rows of the regime not in force
\* showing 0.00; grand total; a less-advance row iff the advance rounded to
\* two decimals is > 0; amount payable.
C14_AllTaxRowsListed ==
    TotalsPrinted =>
        /\ TotalsLabels =
             <<"Sub Total", "SGST (9%)", "CGST (9%)", "IGST (18%)", "TOTAL">>
             \o (IF RoundHalfEven(invoice_meta.advance_received, 10) > 0
                 THEN <<"Less Advance Received">> ELSE <<>>)
             \o <<"Payable To Crux">>
        /\ use_igst => /\ totals_rows[2].value = ZeroValue
                       /\ totals_rows[3].value = ZeroValue
        /\ ~use_igst => totals_rows[4].value = ZeroValue

\* C14 witness: an INTEGRATED invoice of 3.00 with an advance of 1.00 prints
\* seven rows, the two SPLIT rows showing 0.00 and the integrated row 0.54
C14_Witness ==
    /\ pc = "done"
    /\ use_igst
    /\ subtotal = Dec(300)
    /\ invoice_meta.advance_received = 1000
    /\ Len(totals_rows) = 7
    /\ totals_rows[2] = TotalsRow("SGST (9%)", ZeroValue)
    /\ totals_rows[4] = TotalsRow("IGST (18%)", Rs(<<"0",".","5","4">>))
    /\ totals_rows[6].label = "Less Advance Received"

\* the value of the Payable To Crux row read back as a number of
\* thousandths
PrintedPayable ==
    LET t == totals_rows[Len(totals_rows)].value
    IN pyfloat(replace_commas(SubSeq(t, 5, Len(t))))

PiecesAt(x) == {i \in 1..Len(result.s) : result.s[i] = x}

\* the text returned has the clause "<words of n><unit>" exactly once
HasClause(n, unit) ==
    /\ Cardinality(PiecesAt(Lit(unit))) = 1
    /\ \A i \in PiecesAt(Lit(unit)) : i > 1 /\ result.s[i - 1] = NumWords(n)

NoClause(unit) == PiecesAt(Lit(unit)) = {}

\* C16: for a non-negative amount of R rupees and P paise (0 <= P <= 99,
\* 100 R + P the amount in paise) the text has a rupee clause iff R > 0 and a
\* paise clause iff P > 0, the rupee clause first, joined by " and " and
\* ended by " Only"; for R = P = 0 it is exactly "Zero Rupees Only".
C16_WordsOfAmount ==
    (pc = "returned" /\ arg.kind = "num" /\ arg.v >= 0) =>
        LET R == arg.v \div 100
            P == arg.v % 100
        IN /\ result.kind = "str"
           /\ IF R = 0 /\ P = 0
              THEN result.s = <<Lit("Zero Rupees Only")>>
              ELSE /\ IF R > 0 THEN HasClause(R, " Rupees") ELSE NoClause(" Rupees")
                   /\ IF P > 0 THEN HasClause(P, " Paise") ELSE NoClause(" Paise")
                   /\ Cardinality(PiecesAt(Lit(" and "))) =
                        (IF R > 0 /\ P > 0 THEN 1 ELSE 0)
                   /\ \A i \in PiecesAt(Lit(" Rupees")),
                         j \in PiecesAt(Lit(" and ")),
                         k \in PiecesAt(Lit(" Paise")) : j = i + 1 /\ k = j + 2
                   /\ result.s[Len(result.s)] = Lit(" Only")
                   /\ Len(result.s) = (IF R > 0 /\ P > 0 THEN 6 ELSE 3)

\* C16 witness: 1817.20 gives the words of 1817, " Rupees", " and ", the
\* words of 20, " Paise", " Only"
C16_Witness ==
    /\ pc = "returned"
    /\ arg = Num(181720)
    /\ result = Str(<<NumWords(1817), Lit(" Rupees"), Lit(" and "),
                      NumWords(20), Lit(" Paise"), Lit(" Only")>>)

\* C17: rupees_in_words never raises: a non-numeric input gives the empty
\* text and every numeric input, negative amounts and special float values
\* included, gives a text.
C17_WordsNeverRaises ==
    pc \in {"returned", "raised"} =>
        /\ result.kind = "str"
        /\ arg.kind = "text" => result.s = <<>>

\* C18: a call without a client record fails; no document is produced
\* whose client name, address and registration lines are blank.
C18_NoDocumentWithoutClient ==
    pc = "done" =>
        /\ invoice_meta.client.present
        /\ ~(party.name = <<>> /\ party.address = <<>> /\ party.gstin = <<>>)

AlphaNumeric ==
    Digits \cup {UpperCase[k] : k \in 1..Len(UpperCase)}
           \cup {LowerCase[k] : k \in 1..Len(LowerCase)}

\* a registration identifier: 15 letters and digits, the first two digits
IsRegistrationId(s) ==
    /\ Len(s) = 15
    /\ \A i \in 1..15 : s[i] \in AlphaNumeric
    /\ s[1] \in Digits /\ s[2] \in Digits

\* C19: gst_state_code returns the first two characters of a valid
\* 15-character registration identifier and the empty code for every absent
\* or invalid registration number, those whose length is not 15 included.
C19_CodeOnlyOfValidId ==
    pc = "returned" =>
        LET s == IF arg.some THEN strip(arg.s) ELSE <<>>
        IN IF arg.some /\ IsRegistrationId(s)
           THEN result = Txt(SubSeq(s, 1, 2))
           ELSE result = Txt(<<>>)

SheetDone == pc \in {"build", "done"}

\* positions of the section x of the story
StoryPos(x) == {i \in 1..Len(story) : story[i] = x}

AppendixPresent == StoryPos("sheet_title") # {} \/ StoryPos("sheet_table") # {}

\* the groups concatenated, in order
RECURSIVE Flatten(_)
Flatten(groups) ==
    IF groups = <<>> THEN <<>> ELSE Head(groups) \o Flatten(Tail(groups))

\* the appendix follows a page break that follows the totals and the words
\* line, so it starts on a page after the first, where the signature is
\* drawn; its tables are as many as the groups; the groups are consecutive
\* runs of at most 10 columns, ceil(C / 10) of them, that together list
\* every column once, in order
AppendixLayout ==
    LET C == Len(supporting_df.columns)
    IN /\ \A t \in StoryPos("totals"), w \in StoryPos("words"),
             b \in StoryPos("PageBreak"),
             a \in StoryPos("sheet_title") \cup StoryPos("sheet_table") :
             t < w /\ w < b /\ b < a
       /\ StoryPos("totals") # {} /\ StoryPos("words") # {}
       /\ StoryPos("PageBreak") # {}
       /\ Cardinality(StoryPos("sheet_table")) = Len(appendix)
       /\ \A g \in 1..Len(appendix) :
             Len(appendix[g]) >= 1 /\ Len(appendix[g]) <= 10
       /\ Flatten(appendix) = supporting_df.columns
       /\ 10 * Len(appendix) >= C /\ 10 * (Len(appendix) - 1) < C

C21_SameOutcomeOnRerun ==
    (pc = "done" /\ earlier # Unset) => Outcome = earlier

\* C22: every money value of generate_invoice_pdf is the round-half-up, at
\* two decimals, of the exact value it stands for: each row's taxable amount
\* of quantity x rate, each tax component of its share of the subtotal, the
\* advance of the advance received, the net payable of total minus advance.
C22_HalfUpEverywhere ==
    Taxed =>
        /\ \A i \in RowsOf(line_items) : IsRoundedProduct(i)
        /\ IsHalfUpOf(adv.v, invoice_meta.advance_received, 10)
        /\ IsHalfUpOf(sgst.v, (IF use_igst THEN 0 ELSE HalfGstPercent) * subtotal.v, 100)
        /\ IsHalfUpOf(cgst.v, (IF use_igst THEN 0 ELSE HalfGstPercent) * subtotal.v, 100)
        /\ IsHalfUpOf(igst.v, (IF use_igst THEN IgstPercent ELSE 0) * subtotal.v, 100)
        /\ net.v = total.v - adv.v

\* C23: generate_invoice_pdf never hands back a document in which a section
\* is replaced by an error text or is only partly built: a document that
\* reaches doc.build has no error paragraph, and its supporting sheet, if
\* any, has the table of every group of columns.
C23_NoErrorPlaceholder ==
    SheetDone =>
        /\ StoryPos("sheet_error") = {}
        /\ AppendixPresent =>
             appendix = ColumnGroups(supporting_df.columns, 0)

\* C24: whatever was done in the row editor, the rows handed to
\* generate_invoice_pdf carry the sequence numbers 1..N in list order.
C24_HandedRowsNumbered ==
    pc = "prepare" => \A i \in RowsOf(line_items) : line_items[i].slno = i

\* C25: when a with-block of get_db_connection is left, normally or through
\* an exception, every connection leased during the use, in failed attempts
\* too, has been closed, connected or not.
C25_AllLeasedClosed ==
    db.pc = "left" => \A i \in RowsOf(db.taken) : db.taken[i] = "closed"

InGetConnection == db.pc \in {"get_pool", "lease", "reconnect"}

C26_Safe ==
    /\ db.attempt < max_retries
    /\ db.pc = "returned" =>
         \/ db.conn = 0
         \/ db.conn \in RowsOf(db.taken) /\ db.taken[db.conn] = "open"
    /\ (db.pc = "get_pool" /\ db.attempt > 0) => db.pool = "None"
    /\ db.exc # "" => ~InGetConnection

\* C26: get_connection ends after at most 3 attempts with a connected
\* connection or None and raises nothing; an attempt that fails before the
\* last leaves _pool None for the next one; the last failed attempt gives
\* None.
C26_GetConnectionEnds ==
    /\ []C26_Safe
    /\ [][(InGetConnection /\ db'.pc = "returned" /\ db'.conn # 0)
             => db'.taken[db'.conn] = "open"]_vars
    /\ (InGetConnection ~> db.pc = "returned")

\* C26 witness: None after three failed attempts, the pool reset on the way
C26_Witness ==
    /\ db.pc = "returned" /\ db.conn = 0 /\ db.attempt = max_retries - 1
    /\ db.pool = "None"

\* a Decimal of the PDF in the units of the record
InRecordUnits(d) == 1000000 * d.v

\* C27: the record inserted by "Generate PDF Invoice" agrees with the PDF of
\* the same action: same regime, and subtotal, SGST, CGST, IGST and total
\* equal to those printed.
C27_RecordAgreesWithPdf ==
    pc = "saved" =>
        /\ record.use_igst = use_igst
        /\ record.subtotal = InRecordUnits(subtotal)
        /\ record.sgst = InRecordUnits(sgst)
        /\ record.cgst = InRecordUnits(cgst)
        /\ record.igst = InRecordUnits(igst)
        /\ record.total = InRecordUnits(total)

\* C28: the "Advance Received" row of the item table and the "Less Advance
\* Received" row of the totals block are both present or both absent, and
\* show the same amount when present, for every advance >= 0.
C28_AdvanceRowsAgree ==
    (TotalsPrinted /\ invoice_meta.advance_received >= 0) =>
        LET item == RowsOfKind("advance")
            less == TotalsPos("Less Advance Received")
        IN /\ item # {} <=> less # 0
           /\ \A i \in item :
                less # 0 => Rs(table_data[i].desc) = totals_rows[less].value

\* the amount, in paise, that a text of rupees_in_words spells
WordsAmount(w) ==
    LET at(unit) == {i \in 2..Len(w.s) : w.s[i] = Lit(unit)}
        of(unit) == IF at(unit) = {} THEN 0
                    ELSE w.s[(CHOOSE i \in at(unit) : TRUE) - 1].n
    IN 100 * of(" Rupees") + of(" Paise")

\* C29: the words line spells the amount of the "Payable To Crux" row, for
\* every net payable, zero and negative included.
C29_WordsSpellPayable ==
    (pc \in {"appendix", "build", "done"} /\ net.kind = "num") =>
        /\ words.kind = "str"
        /\ WordsAmount(words) = net.v
        /\ PrintedPayable = Num(10 * net.v)

\* the number a cell of the item table prints
CellValue(t) == pyfloat(replace_commas(t))

\* C30: in every item row with a taxable amount printed, quantity and rate
\* are printed too and the taxable amount is the printed quantity times the
\* printed rate, rounded half-up to 2 decimals.
C30_PrintedCellsConsistent ==
    TableBuilt =>
        \A i \in RowsOfKind("item") :
            LET cell == table_data[i]
                pq == CellValue(cell.qty)
                pr == CellValue(cell.rate)
                pt == CellValue(cell.tax)
            IN cell.tax # <<>> =>
                 /\ cell.qty # <<>> /\ cell.rate # <<>>
                 /\ (pq.kind = "num" /\ pr.kind = "num") =>
                      /\ pt.kind = "num" /\ pt.v % 10 = 0
                      /\ IsHalfUpOf(pt.v \div 10, pq.v * pr.v, 10000)

====
